---- MODULE Spec2Model ----
(***************************************************************************)
(* The Handel aggregation engine of src/simul/lib/net.go (package handel): *)
(* Level, Handel and its handlers, with the signature store, the           *)
(* partitioner and the verification pipeline they call.                    *)
(*                                                                         *)
(* A multi-signature is modelled by its contributor bitset, a set of node  *)
(* IDs; the nil *MultiSignature is the empty set (every real aggregate     *)
(* holds at least one contributor).  Go slices are 0-based: h.levels[k-1]  *)
(* of the source is h.levels[k] here, and c.nodes[c.pos] is                *)
(* nodes[pos + 1].                                                         *)
(***************************************************************************)
EXTENDS Integers, Sequences, FiniteSets, TLC

\* ---------------------------------------------------------------- bounds
MaxN == 4
IncomingCap == 1
VerifiedCap == 1
MaxStops == 2

\* capacity of the output channel, make(chan MultiSignature, 100)
OutCap == 100

VARIABLES
    handel,   \* node ID -> the Handel of that node with the tasks running on it
    net,      \* the packets handed to Network.Send
    call      \* the last call of a Level method made on a level directly

vars == <<handel, net, call>>

Null == {}

\* no Level method was called from outside the Handel
NoCall == [k |-> 0, op |-> ""]

min(a, b) == IF a < b THEN a ELSE b

RECURSIVE pow2(_)
pow2(k) == IF k <= 0 THEN 1 ELSE 2 * pow2(k - 1)

RECURSIVE log2From(_, _)
log2From(n, l) == IF pow2(l) >= n THEN l ELSE log2From(n, l + 1)

\* log2(r.Size()): the number of levels L = ceil(log2 N)
log2(n) == log2From(n, 0)

RECURSIVE SortedSeq(_)
SortedSeq(S) ==
    IF S = {} THEN <<>>
    ELSE LET m == CHOOSE x \in S : \A y \in S : x <= y
         IN <<m>> \o SortedSeq(S \ {m})

Range(s) == {s[x] : x \in 1..Len(s)}

\* ----------------------------------------------------------- partitioner
\* partitioner.PickNextAt(level, bound): the candidates of `id` at `level`
\* in the binomial tree over 0..n-1, in ID order
Candidates(id, level, n) ==
    {j \in 0..(n - 1) :
        /\ j # id
        /\ j \div pow2(level) = id \div pow2(level)
        /\ j \div pow2(level - 1) # id \div pow2(level - 1)}

PartitionerPickNextAt(id, level, n) == SortedSeq(Candidates(id, level, n))

\* ------------------------------------------------------------------ Level
NewLevel(id, nodes) ==
    [id |-> id, nodes |-> nodes, started |-> TRUE, completed |-> FALSE,
     finished |-> FALSE, pos |-> 0, sent |-> 0, currentBestSize |-> 0]

createLevels(id, n) ==
    [k \in 1..log2(n) |-> NewLevel(k, PartitionerPickNextAt(id, k, n))]

\* the loop of PickNextAt: res[i] = c.nodes[c.pos]; c.pos++; wrap
RECURSIVE PickLoop(_, _, _, _)
PickLoop(nodes, pos, res, left) ==
    IF left = 0 THEN [res |-> res, pos |-> pos]
    ELSE LET p1 == pos + 1
             p2 == IF p1 >= Len(nodes) THEN 0 ELSE p1
         IN PickLoop(nodes, p2, Append(res, nodes[pos + 1]), left - 1)

\* PickNextAt whose cursor runs past the end of c.nodes by one before it wraps
PickNextAt_LateWrap(c, count) ==
    LET size == min(count, Len(c.nodes))
        r    == PickLoop(c.nodes, c.pos, <<>>, size)
        sent == c.sent + size
    IN [res |-> r.res,
        lvl |-> [c EXCEPT !.pos = IF r.pos = 0 /\ size > 0 THEN Len(c.nodes) ELSE r.pos,
                          !.sent = sent,
                          !.finished = IF sent >= Len(c.nodes) THEN TRUE ELSE @]]

\* (c *Level) PickNextAt(count): the peers returned and the receiver after the call
PickNextAt(c, count) ==
    LET size == min(count, Len(c.nodes))
        r    == PickLoop(c.nodes, c.pos, <<>>, size)
        sent == c.sent + size
    IN [res |-> r.res,
        lvl |-> [c EXCEPT !.pos = r.pos,
                          !.sent = sent,
                          !.finished = IF sent >= Len(c.nodes) THEN TRUE ELSE @]]

\* updateBestSig that takes an equal cardinality for an improvement
updateBestSig_GE(l, sig) ==
    IF Cardinality(sig) > Len(l.nodes)
    THEN [ok |-> FALSE, lvl |-> l, panic |-> "Too many signatures for this level"]
    ELSE IF l.currentBestSize > Cardinality(sig)
    THEN [ok |-> FALSE, lvl |-> l, panic |-> ""]
    ELSE LET l2 == [l EXCEPT !.currentBestSize = Cardinality(sig),
                             !.finished = FALSE,
                             !.sent = 0]
         IN [ok |-> l2.currentBestSize = Len(l2.nodes), lvl |-> l2, panic |-> ""]

\* (l *Level) updateBestSig(sig): the result, the receiver after the call, the panic
updateBestSig(l, sig) ==
    IF Cardinality(sig) > Len(l.nodes)
    THEN [ok |-> FALSE, lvl |-> l, panic |-> "Too many signatures for this level"]
    ELSE IF l.currentBestSize >= Cardinality(sig)
    THEN [ok |-> FALSE, lvl |-> l, panic |-> ""]
    ELSE LET l2 == [l EXCEPT !.currentBestSize = Cardinality(sig),
                             !.finished = FALSE,
                             !.sent = 0]
         IN [ok |-> l2.currentBestSize = Len(l2.nodes), lvl |-> l2, panic |-> ""]

\* --------------------------------------------------------- signature store
\* newReplaceStore followed by h.store.Store(0, mySig)
newReplaceStore(id, n) == [k \in 0..log2(n) |-> IF k = 0 THEN {id} ELSE Null]

\* Store(level, sig): replace iff strictly larger; level 0 is immutable
StoreStore(st, level, sig) ==
    IF level = 0 \/ level \notin DOMAIN st THEN st
    ELSE IF Cardinality(sig) > Cardinality(st[level])
    THEN [st EXCEPT ![level] = sig]
    ELSE st

\* Best(level) -> (sig, ok)
StoreBest(st, level) ==
    IF level \in DOMAIN st /\ st[level] # Null
    THEN [sig |-> st[level], ok |-> TRUE]
    ELSE [sig |-> Null, ok |-> FALSE]

\* Combined(k): merge of best(0..k), nil if a level of 0..k holds nothing
Combined(st, k) ==
    IF k \notin DOMAIN st \/ \E j \in 0..k : st[j] = Null THEN Null
    ELSE UNION {st[j] : j \in 0..k}

\* FullSignature() = Combined(L)
FullSignature(st) == Combined(st, Cardinality(DOMAIN st) - 1)

\* ----------------------------------------------------------------- Handel
\* NewHandel: the Handel of node `id` in a registry of n identities, with the
\* tasks that run on it (ticker, NewPacket caller, verifier, rangeOnVerified)
NewHandel(id, n, candidateCount, threshold) ==
    [id          |-> id,
     n           |-> n,                  \* h.reg.Size()
     candidateCount |-> candidateCount,  \* h.c.CandidateCount
     threshold   |-> threshold,          \* h.threshold
     levels      |-> createLevels(id, n),
     store       |-> newReplaceStore(id, n),
     currLevel   |-> 0,
     best        |-> Null,
     out         |-> <<>>,               \* values sent on h.out, in order
     outClosed   |-> FALSE,              \* close(h.out) has run
     done        |-> FALSE,
     mu          |-> "free",             \* holder of the Handel mutex
     ticker      |-> "running",          \* "draining": stopped with one tick in flight
     procStopped |-> FALSE,              \* h.proc.Stop() has run
     started     |-> FALSE,              \* verifier and rangeOnVerified are spawned
     startCalled |-> FALSE,
     stops       |-> 0,                  \* Stop() calls made
     incoming    |-> <<>>,               \* h.proc.Incoming()
     verified    |-> <<>>,               \* h.proc.Verified()
     ingress     |-> <<>>,               \* packet of the NewPacket call holding the mutex
     sinkItem    |-> <<>>,               \* verified item rangeOnVerified is handling
     panic       |-> "",                 \* the panic that halted the node, "" while it runs
     outbox      |-> {},                 \* packets given to Network.Send by the running handler
     sendMu      |-> {},                 \* was the mutex "held" or "free" while Network.Send executed
     droppedDone |-> FALSE]              \* a NewPacket call found h.done and dropped its packet

Panic(h, msg) == [h EXCEPT !.panic = msg]

\* sendTo with the mutex released around h.net.Send
sendTo_Unlocked(h, lvl, ms, ids) ==
    LET packets == {[to |-> ids[x], origin |-> h.id, level |-> lvl % 256,
                     wellFormed |-> TRUE, bits |-> ms, valid |-> TRUE] :
                        x \in 1..Len(ids)}
    IN [h EXCEPT !.outbox = @ \cup packets, !.sendMu = @ \cup {"free"}]

\* sendTo: one packet per identity, shipped by h.net.Send by the task running h
sendTo(h, lvl, ms, ids) ==
    LET packets == {[to |-> ids[x], origin |-> h.id, level |-> lvl % 256,
                     wellFormed |-> TRUE, bits |-> ms, valid |-> TRUE] :
                        x \in 1..Len(ids)}
    IN [h EXCEPT !.outbox = @ \cup packets,
                 !.sendMu = @ \cup {IF h.mu = "free" THEN "free" ELSE "held"}]

\* sendUpdate that sends this node's own contribution at every level
sendUpdate_OwnOnly(h, l, count) ==
    IF ~l.started \/ l.finished THEN h
    ELSE LET sp == Combined(h.store, 0)
         IN IF sp = Null THEN Panic(h, "THIS SHOULD NOT HAPPEN AT ALL")
            ELSE LET newNodes == PickNextAt(l, count).res
                 IN sendTo(h, l.id, sp, newNodes)

\* sendUpdate(l Level, count): l is a copy, so PickNextAt moves the copy's cursor
sendUpdate(h, l, count) ==
    IF ~l.started \/ l.finished THEN h
    ELSE LET sp == Combined(h.store, l.id - 1)
         IN IF sp = Null THEN Panic(h, "THIS SHOULD NOT HAPPEN AT ALL")
            ELSE LET newNodes == PickNextAt(l, count).res
                 IN sendTo(h, l.id, sp, newNodes)

\* findNextLevel: for l := lvl + 1; lvl <= len(h.levels); l++
RECURSIVE findNextLevelLoop(_, _, _)
findNextLevelLoop(lvls, lvl, l) ==
    IF ~(lvl <= Len(lvls)) THEN [l |-> 0, err |-> "no non-empty level found"]
    ELSE IF l - 1 >= Len(lvls) THEN [l |-> 0, err |-> "index out of range"]
    ELSE IF Len(lvls[l].nodes) = 0 THEN findNextLevelLoop(lvls, lvl, l + 1)
    ELSE [l |-> l, err |-> ""]

findNextLevel(h, lvl) == findNextLevelLoop(h.levels, lvl, lvl + 1)

sendBestUpTo(h, lvl) ==
    IF lvl < 0 \/ lvl >= Len(h.levels)
    THEN Panic(h, "skip sending best -> reached maximum level")
    ELSE LET r == findNextLevel(h, lvl)
         IN IF r.err # "" THEN Panic(h, r.err)
            ELSE sendUpdate(h, h.levels[r.l], h.candidateCount)

\* startNextLevel that counts two levels at once
startNextLevel_Plus2(h) ==
    IF h.currLevel >= Len(h.levels) THEN h
    ELSE LET h2 == sendBestUpTo(h, h.currLevel)
         IN IF h2.panic # "" THEN h2
            ELSE [h2 EXCEPT !.currLevel = (@ + 2) % 256]

startNextLevel(h) ==
    IF h.currLevel >= Len(h.levels) THEN h
    ELSE LET h2 == sendBestUpTo(h, h.currLevel)
         IN IF h2.panic # "" THEN h2
            ELSE [h2 EXCEPT !.currLevel = (@ + 1) % 256]

\* checkCompletedLevel that sends upward for every level but the last
checkCompletedLevel_UpToL(h, s) ==
    LET lvl == h.levels[s.level]
    IN IF lvl.completed THEN h
       ELSE LET b == StoreBest(h.store, s.level)
            IN IF ~b.ok THEN Panic(h, "something's wrong with the store")
               ELSE LET u == updateBestSig(lvl, b.sig)
                    IN IF u.panic # "" THEN Panic(h, u.panic)
                       ELSE IF ~u.ok THEN h
                       ELSE IF s.level = h.currLevel THEN startNextLevel(h)
                       ELSE IF lvl.id < Len(h.levels) THEN sendBestUpTo(h, lvl.id)
                       ELSE h

\* checkCompletedLevel: lvl is a copy of h.levels[s.level-1]
checkCompletedLevel(h, s) ==
    LET lvl == h.levels[s.level]
    IN IF lvl.completed THEN h
       ELSE LET b == StoreBest(h.store, s.level)
            IN IF ~b.ok THEN Panic(h, "something's wrong with the store")
               ELSE LET u == updateBestSig(lvl, b.sig)
                    IN IF u.panic # "" THEN Panic(h, u.panic)
                       ELSE IF ~u.ok THEN h
                       ELSE IF s.level = h.currLevel THEN startNextLevel(h)
                       ELSE IF lvl.id < Len(h.levels) - 1 THEN sendBestUpTo(h, lvl.id)
                       ELSE h

\* the closure newBest of checkFinalSignature; a send on the full h.out blocks
newBest(h, ms) ==
    IF h.done THEN h
    ELSE IF h.outClosed THEN Panic([h EXCEPT !.best = ms], "send on closed channel")
    ELSE IF Len(h.out) >= OutCap THEN [h EXCEPT !.best = ms, !.mu = "sink blocked on out"]
    ELSE [h EXCEPT !.best = ms, !.out = Append(@, ms)]

\* checkFinalSignature that takes an equal cardinality for an improvement
checkFinalSignature_GE(h, s) ==
    LET sig == FullSignature(h.store)
    IN IF sig = Null THEN Panic(h, "nil pointer dereference")
       ELSE IF Cardinality(sig) < h.threshold THEN h
       ELSE IF h.best = Null THEN newBest(h, sig)
       ELSE IF Cardinality(sig) >= Cardinality(h.best) THEN newBest(h, sig)
       ELSE h

checkFinalSignature(h, s) ==
    LET sig == FullSignature(h.store)
    IN IF sig = Null THEN Panic(h, "nil pointer dereference")
       ELSE IF Cardinality(sig) < h.threshold THEN h
       ELSE IF h.best = Null THEN newBest(h, sig)
       ELSE IF Cardinality(sig) > Cardinality(h.best) THEN newBest(h, sig)
       ELSE h

\* parsePacket that lets level 0 through (lvl < 0 for lvl < 1)
parsePacket_Level0(h, p) ==
    IF p.origin >= h.n THEN "packet's origin out of range"
    ELSE IF p.level < 0 \/ p.level > log2(h.n) THEN "packet's level out of range"
    ELSE IF ~p.wellFormed THEN "unmarshal"
    ELSE ""

\* parsePacket: the error, "" if the packet parses
parsePacket(h, p) ==
    IF p.origin >= h.n THEN "packet's origin out of range"
    ELSE IF p.level < 1 \/ p.level > log2(h.n) THEN "packet's level out of range"
    ELSE IF ~p.wellFormed THEN "unmarshal"
    ELSE ""

\* the loop of periodicUpdate over copies of h.levels[k-1], k = from..len
RECURSIVE periodicUpdateLoop(_, _)
periodicUpdateLoop(h, k) ==
    IF k > Len(h.levels) \/ h.panic # "" THEN h
    ELSE periodicUpdateLoop(sendUpdate(h, h.levels[k], 1), k + 1)

\* ---------------------------------------------------------------- actions
\* A handler that runs under the mutex is one step from h.Lock() to
\* h.Unlock(): nothing else that takes the mutex can interleave.  The mutex
\* stays held between steps only by a handler blocked on a channel.
Running(i) == i \in DOMAIN handel /\ handel[i].panic = ""

\* h.Lock() by `task`
Lock(h, task) == [h EXCEPT !.mu = task]

\* h.Unlock() of a handler that returns
Unlock(h) == IF h.panic = "" /\ h.mu \in {"start", "stop", "ticker", "ingress", "sink"}
             THEN [h EXCEPT !.mu = "free"]
             ELSE h

\* a panic ends the process: its goroutines and channels are gone
Crash(h) == IF h.panic = "" THEN h
            ELSE [h EXCEPT !.incoming = <<>>, !.verified = <<>>,
                           !.ingress = <<>>, !.sinkItem = <<>>]

\* the handler's end: its packets are with the network, the mutex is released
Finish(i, h) ==
    /\ handel' = [handel EXCEPT ![i] = Crash(Unlock([h EXCEPT !.outbox = {}]))]
    /\ net' = net \cup h.outbox
    /\ UNCHANGED call

\* Start: go h.proc.Start(); go h.rangeOnVerified(); h.startNextLevel()
Start(i) ==
    /\ Running(i)
    /\ ~handel[i].startCalled
    /\ handel[i].mu = "free"
    /\ LET h == [Lock(handel[i], "start") EXCEPT !.startCalled = TRUE, !.started = TRUE]
       IN Finish(i, startNextLevel(h))

\* Stop: h.ticker.Stop(); h.proc.Stop(); h.done = true; close(h.out)
Stop(i) ==
    /\ Running(i)
    /\ handel[i].stops < MaxStops
    /\ handel[i].mu = "free"
    /\ \E t \in (IF handel[i].ticker = "running" THEN {"draining", "stopped"}
                 ELSE {handel[i].ticker}) :
         LET h1 == [Lock(handel[i], "stop") EXCEPT !.stops = @ + 1, !.ticker = t,
                                                   !.procStopped = TRUE, !.done = TRUE]
             h2 == IF h1.outClosed THEN Panic(h1, "close of closed channel")
                   ELSE [h1 EXCEPT !.outClosed = TRUE]
         IN Finish(i, h2)

\* the ticker goroutine of NewHandel: a tick arrived, h.periodicUpdate()
periodicUpdate(i) ==
    /\ Running(i)
    /\ handel[i].ticker # "stopped"
    /\ handel[i].mu = "free"
    /\ LET h == [Lock(handel[i], "ticker") EXCEPT
                    !.ticker = IF @ = "draining" THEN "stopped" ELSE @]
       IN Finish(i, periodicUpdateLoop(h, 1))

\* NewPacket without the h.done check
NewPacket_NoDoneCheck(i, p) ==
    /\ Running(i)
    /\ handel[i].mu = "free"
    /\ LET h == Lock(handel[i], "ingress")
           s == [origin |-> p.origin, level |-> p.level, ms |-> p.bits, valid |-> p.valid]
       IN handel' = [handel EXCEPT ![i] =
            IF parsePacket(h, p) # "" THEN Unlock(h)
            ELSE IF Len(h.incoming) < IncomingCap
            THEN Unlock([h EXCEPT !.incoming = Append(@, s)])
            ELSE [h EXCEPT !.ingress = <<s>>]]

\* NewPacket(p); the send on a full Incoming() blocks with the mutex held
NewPacket(i, p) ==
    /\ Running(i)
    /\ handel[i].mu = "free"
    /\ LET h == Lock(handel[i], "ingress")
           s == [origin |-> p.origin, level |-> p.level, ms |-> p.bits, valid |-> p.valid]
       IN handel' = [handel EXCEPT ![i] =
            IF h.done THEN Unlock([h EXCEPT !.droppedDone = TRUE])
            ELSE IF parsePacket(h, p) # "" THEN Unlock(h)
            ELSE IF Len(h.incoming) < IncomingCap
            THEN Unlock([h EXCEPT !.incoming = Append(@, s)])
            ELSE [h EXCEPT !.ingress = <<s>>]]

\* the blocked send of NewPacket goes through once Incoming() has room
NewPacketSend(i) ==
    /\ Running(i)
    /\ handel[i].mu = "ingress"
    /\ Len(handel[i].incoming) < IncomingCap
    /\ handel' = [handel EXCEPT ![i] =
            Unlock([@ EXCEPT !.ingress = <<>>,
                             !.incoming = Append(@, handel[i].ingress[1])])]
    /\ UNCHANGED <<net, call>>

\* the verifier: Incoming() -> Verified(), in order; failed items are dropped;
\* once stopped it drains Incoming()
Verify(i) ==
    /\ Running(i)
    /\ handel[i].started
    /\ handel[i].incoming # <<>>
    /\ LET h == handel[i]
           v == Head(h.incoming)
       IN IF h.procStopped \/ ~v.valid
          THEN handel' = [handel EXCEPT ![i].incoming = Tail(@)]
          ELSE /\ Len(h.verified) < VerifiedCap
               /\ handel' = [handel EXCEPT ![i].incoming = Tail(@),
                                           ![i].verified = Append(@, v)]
    /\ UNCHANGED <<net, call>>

\* rangeOnVerified: v := <-h.proc.Verified(); h.store.Store(v.level, v.ms)
rangeOnVerifiedStore(i) ==
    /\ Running(i)
    /\ handel[i].started
    /\ handel[i].sinkItem = <<>>
    /\ handel[i].verified # <<>>
    /\ LET v == Head(handel[i].verified)
       IN handel' = [handel EXCEPT ![i].verified = Tail(@),
                                   ![i].sinkItem = <<v>>,
                                   ![i].store = StoreStore(@, v.level, v.ms)]
    /\ UNCHANGED <<net, call>>

\* rangeOnVerified: h.Lock(); checkCompletedLevel; checkFinalSignature; h.Unlock()
rangeOnVerified(i) ==
    /\ Running(i)
    /\ handel[i].sinkItem # <<>>
    /\ handel[i].mu = "free"
    /\ LET v  == handel[i].sinkItem[1]
           h1 == checkCompletedLevel(Lock(handel[i], "sink"), v)
           h2 == IF h1.panic # "" THEN h1 ELSE checkFinalSignature(h1, v)
       IN Finish(i, IF h2.panic # "" \/ h2.mu # "sink" THEN h2
                    ELSE [h2 EXCEPT !.sinkItem = <<>>])

\* ------------------------------------------------------------ environment
\* packets a transport can hand to NewPacket of node h.  For each level of
\* h: every aggregate of candidates of the level, sent by its first
\* contributor; one whose signature does not verify; one that does not
\* unmarshal.  And the full aggregate of level 1 under an origin or a level
\* that is out of range.
Min(S) == CHOOSE x \in S : \A y \in S : x <= y

Packet(to, origin, level, wellFormed, bits, valid) ==
    [to |-> to, origin |-> origin, level |-> level,
     wellFormed |-> wellFormed, bits |-> bits, valid |-> valid]

LevelPackets(h, l) ==
    LET c == Candidates(h.id, l, h.n)
    IN IF c = {} THEN {Packet(h.id, 0, l, TRUE, {h.id}, FALSE)}
       ELSE {Packet(h.id, Min(b), l, TRUE, b, TRUE) : b \in (SUBSET c) \ {{}}}
            \cup {Packet(h.id, Min(c), l, TRUE, c, FALSE),
                  Packet(h.id, Min(c), l, FALSE, c, FALSE)}

OutOfRangePackets(h) ==
    LET c == IF Candidates(h.id, 1, h.n) = {} THEN {h.id} ELSE Candidates(h.id, 1, h.n)
        v == Candidates(h.id, 1, h.n) # {}
    IN {Packet(h.id, o, 1, TRUE, c, v) : o \in {-1, h.n}}
       \cup {Packet(h.id, Min(c), l, TRUE, c, v) : l \in {0, log2(h.n) + 1}}

EnvPackets(h) ==
    OutOfRangePackets(h) \cup UNION {LevelPackets(h, l) : l \in 1..log2(h.n)}

\* the transport calls NewPacket with a packet of its choice
Receive(i) ==
    /\ Running(i)
    /\ \E p \in EnvPackets(handel[i]) : NewPacket(i, p)
    /\ UNCHANGED <<net, call>>

\* ---------------------------------------------------------- specification
\* the values of h.c.CandidateCount tried in a registry of n: one candidate
\* per send, and every candidate of the level (PickNextAt takes
\* min(count, |nodes|), and no level has more than 2^(L-1) candidates)
CandidateCounts(n) == {1, pow2(log2(n) - 1)}

\* one aggregator of a registry of 2..MaxN nodes, fed by the transport
Init ==
    /\ \E n \in 2..MaxN :
         \E id \in 0..(n - 1), cc \in CandidateCounts(n), th \in 1..n :
            handel = [x \in {id} |-> NewHandel(id, n, cc, th)]
    /\ net = {}
    /\ call = NoCall

Next ==
    \E i \in 0..(MaxN - 1) :
        \/ Start(i)
        \/ Stop(i)
        \/ periodicUpdate(i)
        \/ Receive(i)
        \/ NewPacketSend(i)
        \/ Verify(i)
        \/ rangeOnVerifiedStore(i)
        \/ rangeOnVerified(i)

Spec == Init /\ [][Next]_vars

\* --------------------------------------------------------------- scenarios
\* A node of a scenario's world.  Its peers are the transport's side: the
\* transport hands the node, for a level l and a candidate o of that level
\* that transmits, any aggregate o can send at level l, that is o's own
\* contribution merged with an aggregate of each of o's levels below l.
\* `silent` are the nodes that never transmit.
RECURSIVE PeerCombined(_, _, _, _)
PeerCombined(o, k, n, silent) ==
    IF k = 0 THEN {{o}}
    ELSE {c \cup b : c \in PeerCombined(o, k - 1, n, silent),
                     b \in (SUBSET (Candidates(o, k, n) \ silent)) \ {{}}}

PeerPackets(h, silent) ==
    UNION {UNION {{Packet(h.id, o, l, TRUE, b, TRUE) :
                        b \in PeerCombined(o, l - 1, h.n, silent)} :
                    o \in Candidates(h.id, l, h.n) \ silent} :
           l \in 1..log2(h.n)}

PeerSend(i, silent) ==
    /\ Running(i)
    /\ \E p \in PeerPackets(handel[i], silent) : NewPacket(i, p)
    /\ UNCHANGED <<net, call>>

\* S1: N = 4, threshold = 4, every node transmits
PeerSendS1(i) == PeerSend(i, {})

InitS1 ==
    /\ \E id \in 0..3, cc \in CandidateCounts(4) :
         handel = [x \in {id} |-> NewHandel(id, 4, cc, 4)]
    /\ net = {}
    /\ call = NoCall

NextS1 ==
    \E i \in 0..3 :
        \/ Start(i)
        \/ periodicUpdate(i)
        \/ PeerSendS1(i)
        \/ NewPacketSend(i)
        \/ Verify(i)
        \/ rangeOnVerifiedStore(i)
        \/ rangeOnVerified(i)

\* the ticker fires, the goroutines are scheduled, the transport delivers
FairS1 ==
    \A i \in 0..3 :
        /\ WF_vars(Start(i))
        /\ WF_vars(periodicUpdate(i))
        /\ WF_vars(PeerSendS1(i))
        /\ WF_vars(NewPacketSend(i))
        /\ WF_vars(Verify(i))
        /\ WF_vars(rangeOnVerifiedStore(i))
        /\ WF_vars(rangeOnVerified(i))

SpecS1 == InitS1 /\ [][NextS1]_vars /\ FairS1

\* S2: N = 8, threshold = 6, node 7 never transmits
PeerSendS2(i) == PeerSend(i, {7})

InitS2 ==
    /\ \E id \in 0..6, cc \in CandidateCounts(8) :
         handel = [x \in {id} |-> NewHandel(id, 8, cc, 6)]
    /\ net = {}
    /\ call = NoCall

NextS2 ==
    \E i \in 0..6 :
        \/ Start(i)
        \/ periodicUpdate(i)
        \/ PeerSendS2(i)
        \/ NewPacketSend(i)
        \/ Verify(i)
        \/ rangeOnVerifiedStore(i)
        \/ rangeOnVerified(i)

FairS2 ==
    \A i \in 0..6 :
        /\ WF_vars(Start(i))
        /\ WF_vars(periodicUpdate(i))
        /\ WF_vars(PeerSendS2(i))
        /\ WF_vars(NewPacketSend(i))
        /\ WF_vars(Verify(i))
        /\ WF_vars(rangeOnVerifiedStore(i))
        /\ WF_vars(rangeOnVerified(i))

SpecS2 == InitS2 /\ [][NextS2]_vars /\ FairS2

\* ------------------------------------------------------------------ claims
Nodes == DOMAIN handel

\* the sigPairs a node holds between NewPacket and the actors
Pipeline(h) == Range(h.ingress) \cup Range(h.incoming) \cup Range(h.verified)
               \cup Range(h.sinkItem)

\* C1: the values sent on FinalSignatures() have strictly increasing
\* cardinality, and each has cardinality >= threshold.
C1_FinalMonotone ==
    \A i \in Nodes :
        LET o == handel[i].out
        IN /\ \A k \in 1..Len(o) : Cardinality(o[k]) >= handel[i].threshold
           /\ \A j, k \in 1..Len(o) : j < k => Cardinality(o[j]) < Cardinality(o[k])

\* a final aggregate was emitted, and a later verified aggregate is being
\* handled by the actors
C1_Witness ==
    \E i \in Nodes :
        /\ Len(handel[i].out) >= 1
        /\ handel[i].best = handel[i].out[Len(handel[i].out)]
        /\ handel[i].sinkItem # <<>>

\* C2: a second Stop() on a stopped aggregator does not halt the program, and
\* once done is set nothing more is sent on the output channel.
C2_IdempotentStop ==
    [][\A i \in Nodes :
          /\ handel'[i].panic # "close of closed channel"
          /\ handel[i].done => handel'[i].out = handel[i].out]_vars

\* C3: once done is set, no step pushes onto the verification queue: a
\* NewPacket call returns with Incoming() as it was, and Incoming() only
\* ever loses items from its head.
C3_DoneDropsPackets ==
    [][\A i \in Nodes :
          handel[i].done =>
              /\ \E k \in 0..Len(handel[i].incoming) :
                    handel'[i].incoming =
                        SubSeq(handel[i].incoming, k + 1, Len(handel[i].incoming))
              /\ handel'[i].ingress = <<>>]_vars

\* NewPacket ran on a stopped aggregator and dropped its packet
C3_Witness ==
    \E i \in Nodes : handel[i].done /\ handel[i].droppedDone /\ handel[i].panic = ""

\* C4: a packet whose origin is outside [0, N) or whose level is outside
\* [1, L] is never pushed onto the verification queue.
C4_RejectsOutOfRange ==
    \A i \in Nodes :
        \A s \in Pipeline(handel[i]) :
            /\ s.origin \in 0..(handel[i].n - 1)
            /\ s.level \in 1..log2(handel[i].n)

emittedS1(h) == \E k \in 1..Len(h.out) : h.out[k] = {0, 1, 2, 3}

\* C5: in S1 every node eventually emits the aggregate {0,1,2,3}, and no node
\* halts with a failure before it has.
C5_S1AllEmit ==
    /\ [](\A i \in Nodes : handel[i].panic # "" => emittedS1(handel[i]))
    /\ <>(\A i \in Nodes : emittedS1(handel[i]))

emittedS2(h) == \E k \in 1..Len(h.out) : Cardinality(h.out[k]) >= 6 /\ 7 \notin h.out[k]

\* C6: in S2 every node of 0..6 eventually emits a final aggregate of
\* cardinality >= 6 in which bit 7 is clear.
C6_S2AllEmit ==
    /\ [](\A i \in Nodes : handel[i].panic # "" => emittedS2(handel[i]))
    /\ <>(\A i \in Nodes : emittedS2(handel[i]))

\* the first level of h with candidates
firstNonEmptyLevel(h) == Min({l \in 1..Len(h.levels) : Len(h.levels[l].nodes) > 0})

\* C7: Start() on a fresh aggregator sends this node's own aggregate
\* Combined(0) to candidates of the first non-empty level and leaves
\* currLevel = 1; startNextLevel with currLevel >= L sends nothing and
\* leaves currLevel unchanged.
C7_StartSendsFirstLevel ==
    [][\A i \in Nodes :
          /\ Start(i) =>
               LET h  == handel[i]
                   l  == firstNonEmptyLevel(h)
                   to == PickNextAt(h.levels[l], h.candidateCount).res
               IN /\ handel'[i].panic = ""
                  /\ handel'[i].currLevel = 1
                  /\ {Packet(to[x], i, l, TRUE, Combined(h.store, 0), TRUE) :
                         x \in 1..Len(to)} \subseteq net'
          /\ handel[i].currLevel >= Len(handel[i].levels) =>
               startNextLevel(handel[i]) = handel[i]]_vars

\* C8: level 0 of the store holds this node's own single-contributor
\* aggregate, and no item on its way to Store carries level 0.
C8_LevelZeroOwn ==
    \A i \in Nodes :
        /\ handel[i].store[0] = {i}
        /\ \A s \in Pipeline(handel[i]) : s.level >= 1

\* rangeOnVerified stored a verified aggregate
C8_Witness ==
    \E i \in Nodes :
        /\ \E k \in 1..log2(handel[i].n) : handel[i].store[k] # Null
        /\ handel[i].store[0] = {i}

\* C9: whenever Network.Send executes, the aggregator mutex is not held.
C9_NoLockAcrossSend == \A i \in Nodes : handel[i].sendMu \subseteq {"free"}

\* C9, with the lock held: whenever Network.Send executes, the sending task holds
\* the aggregator mutex.
C9_SendUnderLock == \A i \in Nodes : handel[i].sendMu \subseteq {"held"}

\* Start has sent this node's aggregate to a peer
C9_Witness ==
    \E i \in Nodes :
        /\ handel[i].sendMu = {"held"}
        /\ handel[i].startCalled
        /\ \E p \in net : p.origin = i /\ p.level = handel[i].currLevel

\* C10: neither sendUpdate nor checkFinalSignature halts because
\* Combined(level-1) or FullSignature() is nil.
C10_NilIsNotReady ==
    \A i \in Nodes :
        handel[i].panic \notin {"THIS SHOULD NOT HAPPEN AT ALL", "nil pointer dereference"}

\* a task of the verification pipeline of node i can take a step
PipelineCanStep(i) ==
    LET h == handel[i]
    IN \/ h.mu = "ingress" /\ Len(h.incoming) < IncomingCap
       \/ /\ h.started /\ h.incoming # <<>>
          /\ (h.procStopped \/ ~Head(h.incoming).valid \/ Len(h.verified) < VerifiedCap)
       \/ h.started /\ h.sinkItem = <<>> /\ h.verified # <<>>
       \/ h.sinkItem # <<>> /\ h.mu = "free"

\* C11: no deadlock with bounded channels: while a NewPacket call holds the
\* mutex blocked on Incoming(), or the verified-sink waits for the mutex with
\* a verified item, some task of the pipeline can take a step (so the call
\* returns and the sink gets the mutex).
C11_NoDeadlock ==
    \A i \in Nodes :
        (handel[i].started /\ handel[i].panic = ""
            /\ (handel[i].mu = "ingress" \/ handel[i].sinkItem # <<>>))
        => PipelineCanStep(i)

\* C12: a tick that sends for a started, non-finished level moves that
\* level's cursor on by one candidate (so consecutive ticks contact
\* consecutive candidates) and counts the send, and the level is finished
\* once |nodes| candidates were contacted since the last improvement.
C12_RoundRobinTicks ==
    [][\A i \in Nodes :
          (periodicUpdate(i) /\ handel'[i].panic = "") =>
              \A k \in 1..Len(handel[i].levels) :
                  LET l == handel[i].levels[k]
                  IN (l.started /\ ~l.finished /\ Len(l.nodes) > 0) =>
                        handel'[i].levels[k] = PickNextAt(l, 1).lvl]_vars

\* C13: once the actors have handled a full aggregate of a level (the store
\* holds |nodes| contributions for it), the level's completed flag in
\* h.levels is true, so that checkCompletedLevel fast-exits for the level.
C13_CompletedFlag ==
    \A i \in Nodes :
        (handel[i].panic = "" /\ handel[i].sinkItem = <<>>) =>
            \A k \in 1..Len(handel[i].levels) :
                (/\ Len(handel[i].levels[k].nodes) > 0
                 /\ Cardinality(handel[i].store[k]) = Len(handel[i].levels[k].nodes))
                => handel[i].levels[k].completed

\* ------------------------------------------------------ the Level methods
\* A Level of a node, driven through its methods with the pointer receiver
\* they declare: the level call.k of the node is the receiver, and `call`
\* keeps the last call: the receiver before it, the arguments, the results,
\* and `run`, the peers returned by the latest consecutive PickNextAt(1)
\* calls (at most |nodes| of them).
MaxLevelN == 8
MaxCount == 5
MaxSent == 6

LastOf(s, n) == IF Len(s) <= n THEN s ELSE SubSeq(s, Len(s) - n + 1, Len(s))

\* c.PickNextAt(count) on the level under test
LevelPickNextAt(i) ==
    /\ Running(i)
    /\ call.k \in 1..Len(handel[i].levels)
    /\ handel[i].levels[call.k].sent < MaxSent
    /\ \E count \in 0..MaxCount :
         LET l == handel[i].levels[call.k]
             r == PickNextAt(l, count)
         IN /\ handel' = [handel EXCEPT ![i].levels[call.k] = r.lvl]
            /\ call' = [k |-> call.k, op |-> "PickNextAt", before |-> l,
                        count |-> count, sig |-> Null, res |-> r.res, ok |-> TRUE,
                        run |-> IF count = 1
                                THEN LastOf(call.run \o r.res, Len(l.nodes))
                                ELSE <<>>]
    /\ UNCHANGED net

\* the signatures handed to updateBestSig: 1..|nodes| candidates of the
\* level, and one signature too many
LevelSigs(h, l) ==
    {Range(SubSeq(l.nodes, 1, c)) : c \in 1..Len(l.nodes)}
        \cup {Range(l.nodes) \cup {h.id}}

\* l.updateBestSig(sig) on the level under test
LevelUpdateBestSig(i) ==
    /\ Running(i)
    /\ call.k \in 1..Len(handel[i].levels)
    /\ \E sig \in LevelSigs(handel[i], handel[i].levels[call.k]) :
         LET l == handel[i].levels[call.k]
             u == updateBestSig(l, sig)
         IN /\ handel' = [handel EXCEPT ![i].levels[call.k] = u.lvl,
                                        ![i].panic = u.panic]
            /\ call' = [k |-> call.k, op |-> "updateBestSig", before |-> l,
                        count |-> 0, sig |-> sig, res |-> <<>>, ok |-> u.ok,
                        run |-> <<>>]
    /\ UNCHANGED net

InitLevel ==
    /\ \E n \in 2..MaxLevelN :
         \E id \in 0..(n - 1), k \in 1..log2(n) :
            /\ handel = [x \in {id} |-> NewHandel(id, n, 1, n)]
            /\ call = [k |-> k, op |-> "", before |-> handel[id].levels[k],
                       count |-> 0, sig |-> Null, res |-> <<>>, ok |-> TRUE,
                       run |-> <<>>]
    /\ net = {}

NextLevel ==
    \E i \in 0..(MaxLevelN - 1) :
        \/ LevelPickNextAt(i)
        \/ LevelUpdateBestSig(i)

SpecLevel == InitLevel /\ [][NextLevel]_vars

\* the level under test
TheLevel(i) == handel[i].levels[call.k]

\* C14: PickNextAt(count) returns min(count, |nodes|) peers, nodes[pos],
\* nodes[pos+1 mod |nodes|], ... in order; pos advances by that many modulo
\* |nodes| and stays in [0, |nodes|); sent grows by the number returned and
\* finished is set as soon as sent >= |nodes|; |nodes| consecutive
\* PickNextAt(1) calls return every peer once, in round-robin order.
C14_PickNextAt ==
    \A i \in Nodes :
        LET l == TheLevel(i)
            b == call.before
            m == Len(b.nodes)
            size == IF call.count < m THEN call.count ELSE m
        IN /\ (m > 0 => l.pos \in 0..(m - 1))
           /\ call.op = "PickNextAt" =>
                /\ Len(call.res) = size
                /\ \A j \in 1..size : call.res[j] = b.nodes[((b.pos + j - 1) % m) + 1]
                /\ (m > 0 => l.pos = (b.pos + size) % m)
                /\ l.sent = b.sent + size
                /\ (l.sent >= m => l.finished)
                /\ (l.sent < m => l.finished = b.finished)
                /\ l.nodes = b.nodes /\ l.currentBestSize = b.currentBestSize
                /\ (Len(call.run) = m /\ m > 0) =>
                      /\ Range(call.run) = Range(b.nodes)
                      /\ \A j \in 1..(m - 1) :
                            \E x \in 1..m : /\ call.run[j] = b.nodes[x]
                                            /\ call.run[j + 1] = b.nodes[(x % m) + 1]

\* |nodes| consecutive PickNextAt(1) calls were made on a level of three or
\* more peers and the cursor wrapped
C14_Witness ==
    \E i \in Nodes :
        /\ call.op = "PickNextAt"
        /\ Len(call.before.nodes) >= 3
        /\ Len(call.run) = Len(call.before.nodes)
        /\ call.before.pos = Len(call.before.nodes) - 1
        /\ TheLevel(i).pos = 0
        /\ TheLevel(i).finished

\* C15: updateBestSig(sig) is strictly monotone.  With sig.cardinality <=
\* currentBestSize it returns false and leaves the level as it was; with a
\* larger cardinality it sets currentBestSize, resets sent to 0, clears
\* finished and returns true iff currentBestSize = |nodes|; it panics iff
\* sig.cardinality > |nodes|.  currentBestSize never exceeds |nodes|.
C15_UpdateBestSig ==
    \A i \in Nodes :
        LET l == TheLevel(i)
            b == call.before
            c == Cardinality(call.sig)
        IN /\ l.currentBestSize <= Len(l.nodes)
           /\ call.op = "updateBestSig" =>
                /\ (handel[i].panic # "") <=> (c > Len(b.nodes))
                /\ handel[i].panic # "" => l = b
                /\ (handel[i].panic = "" /\ c <= b.currentBestSize) =>
                        (~call.ok /\ l = b)
                /\ (handel[i].panic = "" /\ c > b.currentBestSize) =>
                        /\ l = [b EXCEPT !.currentBestSize = c, !.sent = 0,
                                         !.finished = FALSE]
                        /\ call.ok <=> (c = Len(b.nodes))
                /\ l.currentBestSize >= b.currentBestSize

\* updateBestSig was handed a signature of the cardinality the level
\* already holds, after peers were contacted, and refused it
C15_Witness ==
    \E i \in Nodes :
        /\ call.op = "updateBestSig"
        /\ handel[i].panic = ""
        /\ Cardinality(call.sig) = call.before.currentBestSize
        /\ call.before.currentBestSize >= 1
        /\ call.before.sent >= 1
        /\ ~call.ok

\* ------------------------------------------------ sendBestUpTo on its own
\* createLevels over the partitioner of the configuration
\* (config.NewPartitioner): one that hands out no candidates for the levels
\* of `absent`, and the binomial candidates elsewhere.
ConfiguredLevels(id, n, absent) ==
    [k \in 1..log2(n) |->
        NewLevel(k, IF k \in absent THEN <<>> ELSE PartitionerPickNextAt(id, k, n))]

\* h.sendBestUpTo(lvl), 0 <= lvl < L, called with the mutex held
CallSendBestUpTo(i) ==
    /\ Running(i)
    /\ handel[i].mu = "free"
    /\ \E lvl \in 0..(Len(handel[i].levels) - 1) :
         LET h2 == sendBestUpTo(Lock(handel[i], "start"), lvl)
         IN /\ handel' = [handel EXCEPT ![i] = Crash(Unlock([h2 EXCEPT !.outbox = {}]))]
            /\ net' = net \cup h2.outbox
            /\ call' = [k |-> lvl, op |-> "sendBestUpTo", packets |-> h2.outbox]

InitFind ==
    /\ \E n \in 2..MaxN :
         \E id \in 0..(n - 1), cc \in CandidateCounts(n), th \in 1..n,
            absent \in SUBSET (1..log2(n)) :
            handel = [x \in {id} |->
                        [NewHandel(id, n, cc, th) EXCEPT
                            !.levels = ConfiguredLevels(id, n, absent)]]
    /\ net = {}
    /\ call = NoCall

NextFind == \E i \in 0..(MaxN - 1) : CallSendBestUpTo(i)

SpecFind == InitFind /\ [][NextFind]_vars

\* the non-empty levels above lvl
HigherLevels(h, lvl) ==
    {l \in (lvl + 1)..Len(h.levels) : Len(h.levels[l].nodes) > 0}

\* C16: sendBestUpTo(lvl), 0 <= lvl < L, sends at the smallest non-empty
\* level above lvl; if there is none it fails with "no non-empty level
\* found", and it never reads h.levels past its end.
C16_FindNextLevel ==
    \A i \in Nodes :
        call.op = "sendBestUpTo" =>
            LET h == handel[i]
                higher == HigherLevels(h, call.k)
            IN /\ h.panic # "index out of range"
               /\ higher = {} => h.panic = "no non-empty level found"
               /\ higher # {} =>
                    /\ h.panic # "no non-empty level found"
                    /\ \A p \in call.packets : p.level = Min(higher)

\* ----------------------------------------------------------- scenario S5
\* S5: N = 6 (L = 3), every node transmits; nodes 4 and 5 have no
\* candidates at level 2
PeerSendS5(i) == PeerSend(i, {})

InitS5 ==
    /\ \E id \in 0..5, cc \in CandidateCounts(6) :
         handel = [x \in {id} |-> NewHandel(id, 6, cc, 6)]
    /\ net = {}
    /\ call = NoCall

NextS5 ==
    \E i \in 0..5 :
        \/ Start(i)
        \/ periodicUpdate(i)
        \/ PeerSendS5(i)
        \/ NewPacketSend(i)
        \/ Verify(i)
        \/ rangeOnVerifiedStore(i)
        \/ rangeOnVerified(i)

SpecS5 == InitS5 /\ [][NextS5]_vars

\* the step of node i calls sendBestUpTo(lvl): Start and a completion of the
\* current level through startNextLevel, a completion of another level
\* below L-1 directly
CallsSendBestUpTo(i, lvl) ==
    LET h == handel[i]
    IN \/ Start(i) /\ lvl = h.currLevel /\ lvl < Len(h.levels)
       \/ /\ rangeOnVerified(i)
          /\ h.sinkItem[1].level = lvl
          /\ updateBestSig(h.levels[lvl], h.store[lvl]).ok
          /\ IF lvl = h.currLevel THEN lvl < Len(h.levels)
             ELSE lvl < Len(h.levels) - 1

\* C17: when the level above lvl is empty and a higher one is not,
\* sendBestUpTo(lvl) does not fail on the empty level's missing aggregate:
\* it sends Combined(lvl) to min(CandidateCount, |nodes|) peers of the next
\* non-empty level.
C17_SkipsEmptyLevels ==
    [][\A i \in Nodes : \A lvl \in 0..(Len(handel[i].levels) - 1) :
          (/\ CallsSendBestUpTo(i, lvl)
           /\ Len(handel[i].levels[lvl + 1].nodes) = 0
           /\ HigherLevels(handel[i], lvl) # {})
          => LET h  == handel[i]
                 l2 == Min(HigherLevels(h, lvl))
                 sent == {p \in net' \ net :
                            /\ p.origin = i /\ p.level = l2
                            /\ p.bits = Combined(h.store, lvl)
                            /\ p.to \in Range(h.levels[l2].nodes)}
             IN /\ handel'[i].panic # "THIS SHOULD NOT HAPPEN AT ALL"
                /\ Cardinality(sent) = min(h.candidateCount, Len(h.levels[l2].nodes))]_vars

\* ------------------------------------------ checkCompletedLevel on its own
\* The actor checkCompletedLevel called, with the mutex held, on an
\* aggregator at any currLevel whose store holds, per level, nothing or an
\* aggregate of the first candidates of the level; the verified item is at a
\* level the store holds an aggregate for.
MaxActorN == 5

StoreOf(h, c) ==
    [k \in 0..Len(h.levels) |->
        IF k = 0 THEN {h.id} ELSE Range(SubSeq(h.levels[k].nodes, 1, c[k]))]

CallCheckCompletedLevel(i) ==
    /\ Running(i)
    /\ handel[i].mu = "free"
    /\ \E k \in 1..Len(handel[i].levels) :
         /\ handel[i].store[k] # Null
         /\ LET h  == handel[i]
                s  == [origin |-> h.levels[k].nodes[1], level |-> k,
                       ms |-> h.store[k], valid |-> TRUE]
                h2 == checkCompletedLevel(Lock(h, "sink"), s)
            IN /\ handel' = [handel EXCEPT ![i] = Crash(Unlock([h2 EXCEPT !.outbox = {}]))]
               /\ net' = net \cup h2.outbox
               /\ call' = [k |-> k, op |-> "checkCompletedLevel", before |-> h,
                           packets |-> h2.outbox]

InitActor ==
    /\ \E n \in 2..MaxActorN :
         \E id \in 0..(n - 1), cc \in CandidateCounts(n), cur \in 0..log2(n),
            c \in [1..log2(n) -> 0..pow2(log2(n) - 1)] :
            LET h == NewHandel(id, n, cc, n)
            IN /\ \A k \in 1..log2(n) : c[k] <= Len(h.levels[k].nodes)
               /\ handel = [x \in {id} |->
                              [h EXCEPT !.currLevel = cur, !.store = StoreOf(h, c),
                                        !.started = TRUE, !.startCalled = TRUE]]
    /\ net = {}
    /\ call = NoCall

NextActor == \E i \in 0..(MaxActorN - 1) : CallCheckCompletedLevel(i)

SpecActor == InitActor /\ [][NextActor]_vars

\* C18: when the verified item's level k is reported complete by
\* updateBestSig: with k = currLevel, startNextLevel runs and nothing else
\* (currLevel + 1 after a send at the next non-empty level, or nothing at
\* currLevel = L); otherwise sendBestUpTo(k) runs iff k < L-1, so that a
\* completion of level L-1 or L that is not the current level sends nothing.
C18_CompletionBranch ==
    \A i \in Nodes :
        call.op = "checkCompletedLevel" =>
            LET b  == call.before
                k  == call.k
                h  == handel[i]
                up == HigherLevels(b, k)
                sentUp == /\ call.packets # {}
                          /\ \A p \in call.packets : p.level = Min(up)
            IN Cardinality(b.store[k]) = Len(b.levels[k].nodes) =>
                 IF k = b.currLevel
                 THEN IF k >= Len(b.levels)
                      THEN call.packets = {} /\ h.currLevel = k /\ h.panic = ""
                      ELSE \/ h.panic # "" /\ call.packets = {} /\ h.currLevel = k
                           \/ h.panic = "" /\ sentUp /\ h.currLevel = k + 1
                 ELSE IF k < Len(b.levels) - 1
                 THEN /\ h.currLevel = b.currLevel
                      /\ \/ h.panic # "" /\ call.packets = {}
                         \/ h.panic = "" /\ sentUp
                 ELSE call.packets = {} /\ h.currLevel = b.currLevel /\ h.panic = ""

\* a level below L-1 that is not the current level completed and its
\* aggregate was sent upward; a completion of level L-1 sent nothing
C18_Witness ==
    \E i \in Nodes :
        /\ call.op = "checkCompletedLevel"
        /\ call.k # call.before.currLevel
        /\ Cardinality(call.before.store[call.k]) = Len(call.before.levels[call.k].nodes)
        /\ call.k < Len(call.before.levels) - 1
        /\ call.packets # {}
        /\ handel[i].panic = ""

\* C19: every packet a node hands to the network with level k has the
\* node's ID for origin, carries Combined(k-1) of the store at that time
\* (own contribution merged with the best of the levels below k, nothing of
\* level k), and goes to a candidate of level k.
C19_PacketContents ==
    [][\A p \in net' \ net : \A i \in Nodes :
          /\ p.origin = i
          /\ p.level \in 1..Len(handel[i].levels)
          /\ p.bits # Null
          /\ p.bits = Combined(handel[i].store, p.level - 1)
          /\ i \in p.bits
          /\ p.bits \cap Range(handel[i].levels[p.level].nodes) = {}
          /\ p.to \in Range(handel[i].levels[p.level].nodes)]_vars

\* a packet of level 2 left carrying the node's contribution merged with
\* the aggregate of level 1
C19_Witness ==
    \E p \in net : \E i \in Nodes :
        /\ p.origin = i /\ p.level = 2
        /\ Cardinality(p.bits) = 2
        /\ p.bits = Combined(handel[i].store, 1)

\* C20: 0 <= currLevel <= L; currLevel never decreases and only ever grows
\* by one; it grows in Start, and after Start only in a step of the
\* verified-sink whose item is at level currLevel and finds that level
\* complete in the store.
C20_CurrLevel ==
    [][\A i \in Nodes :
          LET h == handel[i]
              L == Len(h.levels)
          IN /\ h.currLevel \in 0..L
             /\ handel'[i].currLevel \in 0..L
             /\ \/ handel'[i].currLevel = h.currLevel
                \/ /\ handel'[i].currLevel = h.currLevel + 1
                   /\ \/ ~h.startCalled /\ handel'[i].startCalled
                      \/ /\ h.startCalled
                         /\ h.sinkItem # <<>>
                         /\ h.sinkItem[1].level = h.currLevel
                         /\ Cardinality(h.store[h.currLevel])
                                = Len(h.levels[h.currLevel].nodes)]_vars

\* after Start, level 1 completed and the node moved on to level 2
C20_Witness ==
    \E i \in Nodes :
        /\ handel[i].startCalled
        /\ handel[i].currLevel = 2
        /\ Cardinality(handel[i].store[1]) = Len(handel[i].levels[1].nodes)

====
